---- MODULE Spec2Model ----
(***************************************************************************)
(* Model of digital_phantom_package/intensity_based_stat.py:               *)
(* class IntensityBasedStat (first-order intensity statistics, aggregate   *)
(* and voxel-based/local mode).                                            *)
(*                                                                         *)
(* Real numbers are exact rationals <<num, den>> (den > 0, lowest terms);  *)
(* numpy's nan is <<0, 0>> and +-inf is <<+-1, 0>>.  Square roots and the  *)
(* power 1.5 are kept symbolic (records with a tag).  Arithmetic is over   *)
(* the reals, except in _moment, whose result the skewness and kurtosis    *)
(* getters compare with 0: there every numpy operation rounds to nearest,  *)
(* ties to even, with a significand of Precision bits (the exponent is     *)
(* unbounded: no overflow, no underflow).                                  *)
(***************************************************************************)
EXTENDS Integers, Sequences, FiniteSets, TLC

----------------------------------------------------------------------------
(* Bounds of the model *)

\* intensities of the volume are drawn from 0..MaxVal
MaxVal == 1
\* a voxelCoordinates batch of Spec holds at most MaxVox coordinates
MaxVox == 1
\* the sample matrices of SpecStat come from batches of at most MaxRows
MaxRows == 2
\* longest aggregate sample row of SpecRow
MaxLen == 5
\* bits of the floating-point significand (float64 has 53), scaled down
Precision == 4

(* Program constants *)

\* self.settings.get('kernelRadius', 1)
KernelRadius == 1
\* kwargs.get('voxelArrayShift', 0)
VoxelArrayShift == 0

----------------------------------------------------------------------------
(* Exact arithmetic standing for numpy float64 values *)

NaN == <<0, 0>>
PosInf == <<1, 0>>
NegInf == <<-1, 0>>

Abs(i) == IF i < 0 THEN -i ELSE i

RECURSIVE GCD(_, _)
GCD(a, b) == IF b = 0 THEN a ELSE GCD(b, a % b)

\* the rational n/d in lowest terms; x/0 is nan, inf or -inf as in numpy
Rat(n, d) ==
  IF d = 0 THEN (IF n = 0 THEN NaN ELSE IF n > 0 THEN PosInf ELSE NegInf)
  ELSE LET g == GCD(Abs(n), Abs(d))
           s == IF d < 0 THEN -1 ELSE 1
       IN  <<(s * n) \div g, (s * d) \div g>>

F(i) == <<i, 1>>
Zero == F(0)
One == F(1)

IsNaN(x) == x = NaN
IsFinite(x) == x[2] # 0

\* a + b; nan propagates (operands are never infinite here)
RAdd(x, y) ==
  IF ~IsFinite(x) \/ ~IsFinite(y) THEN NaN
  ELSE Rat(x[1] * y[2] + y[1] * x[2], x[2] * y[2])

RNeg(x) == IF IsFinite(x) THEN <<-x[1], x[2]>> ELSE NaN
RSub(x, y) == RAdd(x, RNeg(y))

\* a * b, cancelling common factors before multiplying
RMul(x, y) ==
  IF ~IsFinite(x) \/ ~IsFinite(y) THEN NaN
  ELSE LET g1 == GCD(Abs(x[1]), y[2])
           g2 == GCD(Abs(y[1]), x[2])
       IN  Rat((x[1] \div g1) * (y[1] \div g2), (x[2] \div g2) * (y[2] \div g1))

\* a / b as numpy divides floats: 0/0 = nan, x/0 = +-inf
RDiv(x, y) ==
  IF ~IsFinite(x) \/ ~IsFinite(y) THEN NaN
  ELSE IF y[1] = 0 THEN Rat(x[1], 0)
  ELSE LET s == IF y[1] < 0 THEN -1 ELSE 1
       IN  RMul(x, <<s * y[2], s * y[1]>>)

RAbs(x) == IF IsFinite(x) THEN <<Abs(x[1]), x[2]>> ELSE x

RECURSIVE RPow(_, _)
RPow(x, k) == IF k = 0 THEN One ELSE RMul(x, RPow(x, k - 1))

\* x < y and x <= y on finite values; any comparison with nan is false
RLt(x, y) == IsFinite(x) /\ IsFinite(y) /\ x[1] * y[2] < y[1] * x[2]
RLe(x, y) == IsFinite(x) /\ IsFinite(y) /\ x[1] * y[2] <= y[1] * x[2]

----------------------------------------------------------------------------
(* numpy reductions over one row (a sequence of cells) *)

RECURSIVE SelectValid(_)
\* the entries of a row that are not nan, in order
SelectValid(row) ==
  IF row = <<>> THEN <<>>
  ELSE IF IsNaN(Head(row)) THEN SelectValid(Tail(row))
  ELSE <<Head(row)>> \o SelectValid(Tail(row))

RECURSIVE RSum(_)
RSum(row) == IF row = <<>> THEN Zero ELSE RAdd(Head(row), RSum(Tail(row)))

\* x = (a / d) * (sn / sd) > 0 rounded to Precision significant bits: a / d
\* is scaled by powers of 2 into [2^(Precision-1), 2^Precision) and rounded
\* to the nearest integer, a tie to the even one
RECURSIVE FlPos(_, _, _, _)
FlPos(a, d, sn, sd) ==
  IF a >= d * 2^Precision THEN FlPos(a, 2 * d, 2 * sn, sd)
  ELSE IF a < d * 2^(Precision - 1) THEN FlPos(2 * a, d, sn, 2 * sd)
  ELSE LET f == a \div d
           r2 == 2 * (a % d)
       IN  IF r2 > d \/ (r2 = d /\ f % 2 = 1)
           THEN Rat((f + 1) * sn, sd) ELSE Rat(f * sn, sd)

\* the floating-point number a float operation stores for the real result x
Fl(x) ==
  IF ~IsFinite(x) \/ x = Zero THEN x
  ELSE IF x[1] < 0 THEN RNeg(FlPos(-x[1], x[2], 1, 1))
  ELSE FlPos(x[1], x[2], 1, 1)

\* the floating-point sum of a row, added up from the left (numpy's order
\* for fewer than 8 entries), starting from acc
RECURSIVE FlSum(_, _)
FlSum(acc, row) ==
  IF row = <<>> THEN acc ELSE FlSum(Fl(RAdd(acc, Head(row))), Tail(row))

\* np.nanmean over a row in floating point
FlNanMean(row) ==
  LET v == SelectValid(row)
  IN  IF v = <<>> THEN NaN ELSE Fl(RDiv(FlSum(Zero, v), F(Len(v))))

\* np.nansum over a row
NanSum(row) == RSum(SelectValid(row))

\* np.nanmean over a row: nan for a row without valid entries
NanMean(row) ==
  LET v == SelectValid(row)
  IN  IF v = <<>> THEN NaN ELSE RDiv(RSum(v), F(Len(v)))

Sorted(row) == SortSeq(SelectValid(row), LAMBDA x, y: RLt(x, y))

\* np.nanpercentile(row, q), linear interpolation between order statistics
NanPercentile(row, q) ==
  LET s == Sorted(row)
      n == Len(s)
  IN  IF n = 0 THEN NaN
      ELSE LET lo == (q * (n - 1)) \div 100
               fr == Rat((q * (n - 1)) % 100, 100)
               hi == IF lo + 2 <= n THEN lo + 2 ELSE n
           IN  RAdd(s[lo + 1], RMul(fr, RSub(s[hi], s[lo + 1])))

\* np.nanmedian over a row
NanMedian(row) ==
  LET s == Sorted(row)
      n == Len(s)
  IN  IF n = 0 THEN NaN
      ELSE IF n % 2 = 1 THEN s[(n + 1) \div 2]
      ELSE RDiv(RAdd(s[n \div 2], s[n \div 2 + 1]), F(2))

\* np.fmin.reduce / np.fmax.reduce over a row with at least one column
NanMin(row) == LET s == Sorted(row) IN IF s = <<>> THEN NaN ELSE s[1]
NanMax(row) == LET s == Sorted(row) IN IF s = <<>> THEN NaN ELSE s[Len(s)]

\* Op applied to the value of v, v being evaluated once
With(v, Op(_)) == CHOOSE r \in {Op(x) : x \in {v}} : TRUE

\* elementwise map keeping the row's width
MapRow(row, Op(_)) == [k \in 1..Len(row) |-> Op(row[k])]

----------------------------------------------------------------------------
(* Values returned by the getters.  A returned number is a record          *)
(*   f = "val"        : the rational a                                      *)
(*   f = "sqrt"       : sqrt(a)                                             *)
(*   f = "sqrt_div"   : sqrt(a) / b                                         *)
(*   f = "div_pow15"  : a / b ** 1.5                                        *)
(* with the cases that have an exact rational value folded to "val".       *)

Val(r) == [f |-> "val", a |-> r, b |-> One]

\* np.sqrt(r)
SqrtOf(r) ==
  IF ~IsFinite(r) \/ r[1] < 0 THEN Val(NaN)
  ELSE IF r = Zero \/ r = One THEN Val(r)
  ELSE [f |-> "sqrt", a |-> r, b |-> One]

\* np.sqrt(v) / m
SqrtOver(v, m) ==
  IF ~IsFinite(v) \/ ~IsFinite(m) \/ v[1] < 0 THEN Val(NaN)
  ELSE IF m = Zero THEN Val(Rat(v[1], 0))
  ELSE IF v = Zero THEN Val(Zero)
  ELSE IF m = One THEN SqrtOf(v)
  ELSE [f |-> "sqrt_div", a |-> v, b |-> m]

\* x / m ** 1.5
DivPow15(x, m) ==
  IF ~IsFinite(x) \/ ~IsFinite(m) \/ m[1] < 0 THEN Val(NaN)
  ELSE IF m = Zero THEN Val(Rat(x[1], 0))
  ELSE IF x = Zero THEN Val(Zero)
  ELSE IF m = One THEN Val(x)
  ELSE [f |-> "div_pow15", a |-> x, b |-> m]

\* np.nan_to_num(x, nan=0, posinf=0, neginf=0)
NanToNum(x) == IF x.f = "val" /\ ~IsFinite(x.a) THEN Val(Zero) ELSE x

(* What a getter call gives back: a vector (one entry per row of the       *)
(* sample matrix), a bare scalar, or an exception.                         *)
Vector(v) == [raised |-> "none", scalar |-> FALSE, v |-> v]
Scalar(x) == [raised |-> "none", scalar |-> TRUE, v |-> <<x>>]
Raise(e) == [raised |-> e, scalar |-> FALSE, v |-> <<>>]
NoResult == Vector(<<>>)

\* a reduction along axis 1: one value per row, also for a matrix of no rows
PerRow(M, Op(_)) == [i \in 1..M.nrows |-> Op(M.data[i])]

\* a sample matrix of shape (nrows, ncols)
Matrix(rows, ncols) == [nrows |-> Len(rows), ncols |-> ncols, data |-> rows]

----------------------------------------------------------------------------
(* The statistics, each applied to the sample matrix self.targetVoxelArray *)

\* s = np.power(a - mn, moment) for one row
MomentPowers(row, mn, moment) ==
  MapRow(row, LAMBDA c: Fl(RPow(Fl(RSub(c, mn)), moment)))

\* _moment(a, moment) for moment >= 2, in floating point, for one row
Moment(row, moment) ==
  With(FlNanMean(row), LAMBDA mn: FlNanMean(MomentPowers(row, mn, moment)))

\* m2[m2 == 0] = 1 for one row
FlatGuard(m2) == IF m2 = Zero THEN One ELSE m2

\* mk[m2 == 0] = 0 for one row, m2 being the guarded second moment
FlatZero(mk, m2) == IF m2 = Zero THEN Zero ELSE mk

\* m3 / m2 ** 1.5 and m4 / m2 ** 2.0 after the two guards, for one row
SkewnessOf(m2, m3) == DivPow15(FlatZero(m3, FlatGuard(m2)), FlatGuard(m2))
KurtosisOf(m2, m4) ==
  Val(RDiv(FlatZero(m4, FlatGuard(m2)), RPow(FlatGuard(m2), 2)))

getMeanIntensity(M) == Vector(PerRow(M, LAMBDA row: Val(NanMean(row))))

\* population variance of a row: what np.nanstd(row) ** 2 equals
NanVar(row) ==
  LET mn == NanMean(row)
  IN  NanMean(MapRow(row, LAMBDA c: RPow(RSub(c, mn), 2)))

getVarianceIntensity(M) == Vector(PerRow(M, LAMBDA row: Val(NanVar(row))))

getStandardDeviationIntensity(M) ==
  Vector(PerRow(M, LAMBDA row: SqrtOf(NanVar(row))))

getIntensitySkewness(M) ==
  Vector(PerRow(M, LAMBDA row:
    With(Moment(row, 2), LAMBDA m2:
      With(Moment(row, 3), LAMBDA m3: SkewnessOf(m2, m3)))))

getIntensityKurtosis(M) ==
  Vector(PerRow(M, LAMBDA row:
    With(Moment(row, 2), LAMBDA m2:
      With(Moment(row, 4), LAMBDA m4: KurtosisOf(m2, m4)))))

getMedianIntensity(M) == Vector(PerRow(M, LAMBDA row: Val(NanMedian(row))))

\* np.nanmin / np.nanmax reduce with fmin / fmax, which have no identity:
\* a reduction axis of length 0 raises ValueError
getMinimumIntensity(M) ==
  IF M.ncols = 0 THEN Raise("ValueError")
  ELSE Vector(PerRow(M, LAMBDA row: Val(NanMin(row))))

getMaximumIntensity(M) ==
  IF M.ncols = 0 THEN Raise("ValueError")
  ELSE Vector(PerRow(M, LAMBDA row: Val(NanMax(row))))

get10IntensityPercentile(M) ==
  Vector(PerRow(M, LAMBDA row: Val(NanPercentile(row, 10))))

get90IntensityPercentile(M) ==
  Vector(PerRow(M, LAMBDA row: Val(NanPercentile(row, 90))))

getIntensityInterquartileRange(M) ==
  Vector(PerRow(M, LAMBDA row:
    Val(RSub(NanPercentile(row, 75), NanPercentile(row, 25)))))

getIntensityRange(M) ==
  IF M.ncols = 0 THEN Raise("ValueError")
  ELSE Vector(PerRow(M, LAMBDA row: Val(RSub(NanMax(row), NanMin(row)))))

\* mean absolute deviation of a row from the value u_x (lines 253-254, 277)
MeanAbsDev(row, u_x) == NanMean(MapRow(row, LAMBDA c: RAbs(RSub(c, u_x))))

getIntensityMeanAbsoluteDeviation(M) ==
  Vector(PerRow(M, LAMBDA row: Val(MeanAbsDev(row, NanMean(row)))))

\* faulty variant: the mask inverted: the band is dropped and the tails are kept
BandRowInverted(row, prcnt10, prcnt90) ==
  MapRow(row, LAMBDA c:
    IF ~IsNaN(c) /\ ~(RLt(RSub(c, prcnt10), Zero) \/ RLt(Zero, RSub(c, prcnt90)))
    THEN NaN ELSE c)

\* one row of percentileArray (lines 268-275): every valid entry outside
\* the closed band [prcnt10, prcnt90] set to nan
BandRow(row, prcnt10, prcnt90) ==
  MapRow(row, LAMBDA c:
    IF ~IsNaN(c) /\ (RLt(RSub(c, prcnt10), Zero) \/ RLt(Zero, RSub(c, prcnt90)))
    THEN NaN ELSE c)

\* percentileArray of getIntensityRobustMeanAbsoluteDeviation: each row
\* banded by the percentiles of that row
PercentileArray(M) ==
  LET prcnt10 == get10IntensityPercentile(M).v
      prcnt90 == get90IntensityPercentile(M).v
  IN  [i \in 1..M.nrows |-> BandRow(M.data[i], prcnt10[i].a, prcnt90[i].a)]

getIntensityRobustMeanAbsoluteDeviation(M) ==
  LET percentileArray == PercentileArray(M)
  IN  Vector([i \in 1..M.nrows |->
        Val(MeanAbsDev(percentileArray[i], NanMean(percentileArray[i])))])

getIntensityMedianAbsoluteDeviation(M) ==
  LET median_intensity == getMedianIntensity(M).v
  IN  Vector([i \in 1..M.nrows |->
        Val(NanMedian(MapRow(M.data[i],
              LAMBDA c: RAbs(RSub(c, median_intensity[i].a)))))])

getIntensityCoefficientOfVariation(M) ==
  Vector(PerRow(M, LAMBDA row: NanToNum(SqrtOver(NanVar(row), NanMean(row)))))

getIntensityQuartileCoefficientOfDispersion(M) ==
  Vector(PerRow(M, LAMBDA row:
    LET q75_intensity == NanPercentile(row, 75)
        q25_intensity == NanPercentile(row, 25)
    IN  NanToNum(Val(RDiv(RSub(q75_intensity, q25_intensity),
                          RAdd(q75_intensity, q25_intensity))))))

\* (targetVoxelArray + voxelArrayShift) ** 2, row by row
ShiftedSquares(row) ==
  MapRow(row, LAMBDA c: RPow(RAdd(c, F(VoxelArrayShift)), 2))

getIntensityEnergy(M) ==
  Vector(PerRow(M, LAMBDA row: Val(NanSum(ShiftedSquares(row)))))

\* faulty variant: Nvox counted over the whole matrix instead of per row
getRootMeanSquareIntensityGlobalCount(M) ==
  IF M.nrows * M.ncols = 0 THEN Scalar(Val(Zero))
  ELSE LET Nvox == RSum([i \in 1..M.nrows |-> F(Len(SelectValid(M.data[i])))])
       IN  Vector(PerRow(M, LAMBDA row:
             SqrtOf(RDiv(NanSum(ShiftedSquares(row)), Nvox))))

getRootMeanSquareIntensity(M) ==
  IF M.nrows * M.ncols = 0 THEN Scalar(Val(Zero))
  ELSE Vector(PerRow(M, LAMBDA row:
         LET Nvox == F(Len(SelectValid(row)))
         IN  SqrtOf(RDiv(NanSum(ShiftedSquares(row)), Nvox))))

Getters ==
  {"Mean", "Variance", "Skewness", "Kurtosis", "Median", "Minimum",
   "P10", "P90", "Maximum", "InterquartileRange", "Range",
   "MeanAbsoluteDeviation", "RobustMeanAbsoluteDeviation",
   "MedianAbsoluteDeviation", "CoefficientOfVariation",
   "QuartileCoefficientOfDispersion", "Energy", "RootMeanSquare",
   "StandardDeviation"}

\* the call self.get<g>() on the sample matrix M
Call(g, M) ==
  CASE g = "Mean" -> getMeanIntensity(M)
    [] g = "Variance" -> getVarianceIntensity(M)
    [] g = "Skewness" -> getIntensitySkewness(M)
    [] g = "Kurtosis" -> getIntensityKurtosis(M)
    [] g = "Median" -> getMedianIntensity(M)
    [] g = "Minimum" -> getMinimumIntensity(M)
    [] g = "P10" -> get10IntensityPercentile(M)
    [] g = "P90" -> get90IntensityPercentile(M)
    [] g = "Maximum" -> getMaximumIntensity(M)
    [] g = "InterquartileRange" -> getIntensityInterquartileRange(M)
    [] g = "Range" -> getIntensityRange(M)
    [] g = "MeanAbsoluteDeviation" -> getIntensityMeanAbsoluteDeviation(M)
    [] g = "RobustMeanAbsoluteDeviation" ->
         getIntensityRobustMeanAbsoluteDeviation(M)
    [] g = "MedianAbsoluteDeviation" -> getIntensityMedianAbsoluteDeviation(M)
    [] g = "CoefficientOfVariation" -> getIntensityCoefficientOfVariation(M)
    [] g = "QuartileCoefficientOfDispersion" ->
         getIntensityQuartileCoefficientOfDispersion(M)
    [] g = "Energy" -> getIntensityEnergy(M)
    [] g = "RootMeanSquare" -> getRootMeanSquareIntensity(M)
    [] g = "StandardDeviation" -> getStandardDeviationIntensity(M)

----------------------------------------------------------------------------
(* numpy arrays of the volume: a shape and one cell per coordinate.        *)
(* Coordinates are 0-based triples, as numpy indexes them.                 *)

\* shape of the intensity volume and the mask handed to the constructor
Shape == <<2, 1, 1>>

Coords(shape) ==
  (0..shape[1] - 1) \X (0..shape[2] - 1) \X (0..shape[3] - 1)

Size(shape) == shape[1] * shape[2] * shape[3]

\* the coordinates of an array in C (row-major) order
CoordSeq(shape) ==
  [i \in 1..Size(shape) |->
     <<(i - 1) \div (shape[2] * shape[3]),
       ((i - 1) \div shape[3]) % shape[2],
       (i - 1) % shape[3]>>]

Array(shape, Cell(_)) == [shape |-> shape, data |-> [c \in Coords(shape) |-> Cell(c)]]

\* arr[mask] for a boolean mask of the same shape: the selected cells in C
\* order (a mask of another shape is an IndexError, see BoolIndexOk)
BoolIndexOk(arr, mask) == arr.shape = mask.shape
BoolIndex(arr, mask) ==
  LET sel == SelectSeq(CoordSeq(arr.shape), LAMBDA c: mask.data[c])
  IN  [k \in 1..Len(sel) |-> arr.data[sel[k]]]

\* np.pad(arr, pad_width=r, mode='constant', constant_values=fill)
Pad(arr, r, fill) ==
  LET sh == <<arr.shape[1] + 2 * r, arr.shape[2] + 2 * r, arr.shape[3] + 2 * r>>
  IN  Array(sh, LAMBDA c:
        LET in == <<c[1] - r, c[2] - r, c[3] - r>>
        IN  IF in \in Coords(arr.shape) THEN arr.data[in] ELSE fill)

\* one integer index i into an axis of length n, as numpy resolves it:
\* 0..n-1 as is, -n..-1 counted from the end, anything else out of bounds
IndexInBounds(i, n) == -n <= i /\ i < n
PyIndex(i, n) == IF i < 0 THEN i + n ELSE i

\* arr[kernelCoords] (integer array indexing) is an IndexError unless every
\* index of every axis is in bounds
GatherOk(arr, kernelCoords) ==
  \A j \in 1..Len(kernelCoords) : \A k \in 1..Len(kernelCoords[j]) :
    \A d \in 1..3 : IndexInBounds(kernelCoords[j][k][d], arr.shape[d])

\* arr[kernelCoords]: shape (Nvox, Nk)
Gather(arr, kernelCoords) ==
  [j \in 1..Len(kernelCoords) |->
     [k \in 1..Len(kernelCoords[j]) |->
        arr.data[<<PyIndex(kernelCoords[j][k][1], arr.shape[1]),
                   PyIndex(kernelCoords[j][k][2], arr.shape[2]),
                   PyIndex(kernelCoords[j][k][3], arr.shape[3])>>]]]

----------------------------------------------------------------------------
(* Collaborators of the class (radiomics.base, cMatrices)                  *)

Min2(a, b) == IF a < b THEN a ELSE b
SetMin(S) == CHOOSE x \in S : \A y \in S : x <= y
SetMax(S) == CHOOSE x \in S : \A y \in S : x >= y

\* sorted sequence of a finite set of integers
RECURSIVE SortedSeqOf(_)
SortedSeqOf(S) ==
  IF S = {} THEN <<>> ELSE <<SetMin(S)>> \o SortedSeqOf(S \ {SetMin(S)})

\* self._applyBinning(matrix): gray level 1, 2, ... (bin width 1 from the
\* lowest masked intensity) inside the mask, 0 outside it
ApplyBinning(matrix, mask) ==
  LET inside == {c \in Coords(matrix.shape) : mask.data[c]}
      lowest == IF inside = {} THEN 0
                ELSE SetMin({matrix.data[c][1] : c \in inside})
  IN  Array(matrix.shape, LAMBDA c:
        IF mask.data[c] THEN matrix.data[c][1] - lowest + 1 ELSE 0)

\* self.coefficients['grayLevels'] = numpy.unique(matrix[self.maskArray])
GrayLevels(disc, mask) ==
  SortedSeqOf({disc.data[c] : c \in {x \in Coords(disc.shape) : mask.data[x]}})

\* cMatrices.generate_angles(boundingBoxSize, 1..kernelRadius, True, False, 0):
\* every non-zero offset within the kernel radius that fits the bounding box
GenerateAngles(boundingBoxSize, kernelRadius) ==
  LET R == (-kernelRadius)..kernelRadius
      all == CoordSeq(<<2 * kernelRadius + 1, 2 * kernelRadius + 1,
                        2 * kernelRadius + 1>>)
      off == [i \in 1..Len(all) |->
                <<all[i][1] - kernelRadius, all[i][2] - kernelRadius,
                  all[i][3] - kernelRadius>>]
  IN  SelectSeq(off, LAMBDA a:
        /\ a # <<0, 0, 0>>
        /\ \A d \in 1..3 : Abs(a[d]) < boundingBoxSize[d])

----------------------------------------------------------------------------
(* The object.  self is the record of the instance's attributes:           *)
(*   imageArray, maskArray, discretizedImageArray : arrays                 *)
(*   grayLevels, p_i        : self.coefficients['grayLevels'], ['p_i']     *)
(*   targetVoxelArray       : the sample matrix                            *)
(*   kernelOffsets          : the offset table, once hasKernel holds       *)
(*   maskedKernel           : the setting read into self.masked            *)

VARIABLES
  self,          \* the instance's attributes
  alias,         \* TRUE while self.imageArray is the very array object origImage
  origImage,     \* the intensity volume handed to the object (caller's array)
  origMask,      \* the mask handed to the object (caller's array)
  argCoords,     \* voxelCoordinates as passed to the last _initCalculation
  callerCoords,  \* the caller's voxelCoordinates array after that call
  evalPoints,    \* number of evaluation points of the last extraction
  lastCall,      \* the method called last
  raised,        \* the exception that call ended with, or "none"
  result         \* what the last getter call gave back

vars == <<self, alias, origImage, origMask, argCoords, callerCoords,
          evalPoints, lastCall, raised, result>>

\* faulty variant: astype without a copy: the result is the operand itself
AstypeFloatView(arr, shared) == [arr |-> arr, shared |-> shared]

\* self.imageArray.astype('float'): the values as floats in a new array
\* object, which shares nothing with its operand
AstypeFloat(arr, shared) == [arr |-> arr, shared |-> FALSE]

\* self.imageArray[~self.maskArray] = np.nan
NanMark(arr, mask) ==
  Array(arr.shape, LAMBDA c: IF mask.data[c] THEN arr.data[c] ELSE NaN)

\* size of the input (lines 44-47): extent of the labelled voxels in masked
\* mode, shape of the image otherwise
InputSize(o, labelled) ==
  IF o.maskedKernel
  THEN [d \in 1..3 |-> SetMax({c[d] : c \in labelled})
                       - SetMin({c[d] : c \in labelled}) + 1]
  ELSE o.imageArray.shape

\* self.kernelOffsets (lines 50-59): the angles, then the centre voxel
KernelOffsets(size, kernelRadius) ==
  LET boundingBoxSize == [d \in 1..3 |-> Min2(size[d], kernelRadius * 2 + 1)]
  IN  GenerateAngles(boundingBoxSize, kernelRadius) \o <<(<<0, 0, 0>>)>>

\* base class part of _initVoxelBasedCalculation (line 39): self.masked,
\* self.labelledVoxelCoordinates and self.maskArray from the input mask
BaseInitVoxelBased(o, mask) ==
  [o EXCEPT !.maskArray =
     IF o.maskedKernel THEN mask
     ELSE Array(o.imageArray.shape, LAMBDA c: TRUE)]

\* _initVoxelBasedCalculation on the object o whose imageArray is (shared)
\* or is not the caller's array img; mask is the input mask.
\* Gives the object, the caller's array and the exception afterwards.
InitVoxelBasedCalculation(o, shared, img, mask) ==
  LET b == BaseInitVoxelBased(o, mask)
      labelled == {c \in Coords(mask.shape) : mask.data[c]}
  IN  IF b.maskedKernel /\ labelled = {}
      THEN \* np.max over no labelled voxel (line 45)
           [self |-> b, alias |-> shared, img |-> img, raised |-> "ValueError"]
      ELSE
        LET offsets == KernelOffsets(InputSize(b, labelled), KernelRadius)
            fl == AstypeFloat(b.imageArray, shared)
            marked == NanMark(fl.arr, b.maskArray)
        IN  [self |-> [b EXCEPT
                         !.kernelOffsets = offsets,
                         !.hasKernel = TRUE,
                         !.imageArray = Pad(marked, KernelRadius, NaN),
                         !.maskArray = Pad(b.maskArray, KernelRadius, FALSE)],
             alias |-> FALSE,
             img |-> IF fl.shared THEN marked ELSE img,
             raised |-> "none"]

\* faulty variant: without the replacement of a total of 0
NormaliseOccupancyNoGuard(counts) ==
  [j \in 1..Len(counts) |->
     MapRow(counts[j], LAMBDA n: RDiv(n, RSum(counts[j])))]

\* lines 88-90: each row of counts divided by its total, a total of 0
\* replaced by 1
NormaliseOccupancy(counts) ==
  [j \in 1..Len(counts) |->
     LET sumBins == RSum(counts[j])
         total == IF sumBins = Zero THEN One ELSE sumBins
     IN  MapRow(counts[j], LAMBDA n: RDiv(n, total))]

\* np.unique(levels, return_counts=True)[1]: how often each distinct level
\* occurs, in ascending order of the levels
UniqueCounts(levels) ==
  LET distinct == SortedSeqOf({levels[k] : k \in 1..Len(levels)})
  IN  [u \in 1..Len(distinct) |->
         F(Cardinality({k \in 1..Len(levels) : levels[k] = distinct[u]}))]

\* faulty variant: the coordinates copied but not shifted
ShiftForPaddingNoShift(voxelCoordinates) ==
  [shifted |-> voxelCoordinates, caller |-> voxelCoordinates]

\* voxelCoordinates.copy() + kernelRadius (line 78): the shifted copy, and
\* the caller's array, which the copy leaves as it was
ShiftForPadding(voxelCoordinates) ==
  [shifted |-> [j \in 1..Len(voxelCoordinates) |->
                  [d \in 1..3 |-> voxelCoordinates[j][d] + KernelRadius]],
   caller |-> voxelCoordinates]

\* kernelCoords (lines 79-80): entry [j][k] = offset k + shifted coordinate j
KernelCoords(kernelOffsets, shifted) ==
  [j \in 1..Len(shifted) |->
     [k \in 1..Len(kernelOffsets) |->
        [d \in 1..3 |-> kernelOffsets[k][d] + shifted[j][d]]]]

\* _initCalculation() (lines 72-75, 88-91): aggregate mode
InitCalculationAggregate(o) ==
  IF ~BoolIndexOk(o.imageArray, o.maskArray)
  THEN [self |-> o, set |-> FALSE, raised |-> "IndexError"]
  ELSE
    LET row == BoolIndex(o.imageArray, o.maskArray)
        o1 == [o EXCEPT !.targetVoxelArray = Matrix(<<row>>, Len(row))]
    IN  IF ~BoolIndexOk(o.discretizedImageArray, o.maskArray)
        THEN [self |-> o1, set |-> TRUE, raised |-> "IndexError"]
        ELSE
          LET p_i == <<UniqueCounts(BoolIndex(o.discretizedImageArray,
                                              o.maskArray))>>
          IN  [self |-> [o1 EXCEPT !.p_i = NormaliseOccupancy(p_i)],
               set |-> TRUE, raised |-> "none"]

\* lines 84-86: for every evaluation point, the number of kernel voxels
\* discretised to each gray level
LevelCounts(levels, grayLevels) ==
  [j \in 1..Len(levels) |->
     [g \in 1..Len(grayLevels) |->
        F(Cardinality({k \in 1..Len(levels[j]) :
                         levels[j][k] = grayLevels[g]}))]]

\* lines 82-91, for the kernel coordinates of the batch
GatherAt(o, kernelCoords) ==
  IF ~GatherOk(o.imageArray, kernelCoords)
  THEN [self |-> o, set |-> FALSE, raised |-> "IndexError"]
  ELSE
    LET o1 == [o EXCEPT !.targetVoxelArray =
                 Matrix(Gather(o.imageArray, kernelCoords),
                        Len(o.kernelOffsets))]
    IN  IF o.grayLevels # <<>>
           /\ ~GatherOk(o.discretizedImageArray, kernelCoords)
        THEN [self |-> o1, set |-> TRUE, raised |-> "IndexError"]
        ELSE [self |-> [o1 EXCEPT !.p_i =
                          IF o.grayLevels = <<>>
                          THEN [j \in 1..Len(kernelCoords) |-> <<>>]
                          ELSE NormaliseOccupancy(LevelCounts(
                                 Gather(o.discretizedImageArray, kernelCoords),
                                 o.grayLevels))],
              set |-> TRUE, raised |-> "none"]

\* _initCalculation(voxelCoordinates) (lines 78-91): local mode, on the
\* shifted copy of the coordinates
InitCalculationLocal(o, shifted) ==
  IF ~o.hasKernel
  THEN [self |-> o, set |-> FALSE, raised |-> "AttributeError"]
  ELSE GatherAt(o, KernelCoords(o.kernelOffsets, shifted))

----------------
(* Construction *)

\* the attributes before __init__ has set any
Blank(maskedKernel) ==
  [imageArray |-> Array(Shape, LAMBDA c: Zero),
   maskArray |-> Array(Shape, LAMBDA c: FALSE),
   discretizedImageArray |-> Array(Shape, LAMBDA c: 0),
   grayLevels |-> <<>>,
   p_i |-> <<>>,
   targetVoxelArray |-> Matrix(<<>>, 0),
   kernelOffsets |-> <<>>,
   hasKernel |-> FALSE,
   maskedKernel |-> maskedKernel]

\* __init__ (lines 30-36): the base class takes the image and sets up the
\* mask (voxel-based or segment-based), then binning, then _initCalculation()
Construct(img, mask, maskedKernel, voxelBased) ==
  LET o0 == [Blank(maskedKernel) EXCEPT !.imageArray = img]
      b == IF voxelBased
           THEN InitVoxelBasedCalculation(o0, TRUE, img, mask)
           ELSE [self |-> [o0 EXCEPT !.maskArray = mask], alias |-> TRUE,
                 img |-> img, raised |-> "none"]
  IN  IF b.raised # "none"
      THEN [self |-> b.self, alias |-> b.alias, img |-> b.img,
            raised |-> b.raised]
      ELSE
        LET disc == ApplyBinning(b.self.imageArray, b.self.maskArray)
            o1 == [b.self EXCEPT
                     !.discretizedImageArray = disc,
                     !.grayLevels = GrayLevels(disc, b.self.maskArray)]
            c == InitCalculationAggregate(o1)
        IN  [self |-> c.self, alias |-> b.alias, img |-> b.img,
             raised |-> c.raised]

Volumes == {Array(Shape, LAMBDA c: F(f[c])) : f \in [Coords(Shape) -> 0..MaxVal]}
Masks == {Array(Shape, LAMBDA c: f[c]) : f \in [Coords(Shape) -> BOOLEAN]}

\* the state after a construction that raised nothing
Init ==
  \E img \in Volumes, mask \in Masks, maskedKernel \in BOOLEAN,
     voxelBased \in BOOLEAN :
    LET c == Construct(img, mask, maskedKernel, voxelBased)
    IN  /\ c.raised = "none"
        /\ self = c.self
        /\ alias = c.alias
        /\ origImage = c.img
        /\ origMask = mask
        /\ argCoords = <<>>
        /\ callerCoords = <<>>
        /\ evalPoints = 1
        /\ lastCall = "__init__"
        /\ raised = "none"
        /\ result = NoResult

----------------------------------------------------------------------------
(* The calls *)

\* evaluation coordinates a caller may pass: one step below the volume
\* (whose kernel reaches index -1), inside it, and one step above it (whose
\* kernel leaves the padded volume)
EvalCoords == {<<x, 0, 0>> : x \in (-KernelRadius)..Shape[1]}

\* voxelCoordinates arrays of at most n coordinates
BatchesUpTo(n) == UNION {[1..m -> EvalCoords] : m \in 0..n}
Batches == BatchesUpTo(MaxVox)

\* self._initVoxelBasedCalculation(), called on an object whose image is not
\* padded yet
CallInitVoxelBasedCalculation ==
  /\ self.imageArray.shape = Shape
  /\ LET r == InitVoxelBasedCalculation(self, alias, origImage, origMask)
     IN  /\ self' = r.self
         /\ alias' = r.alias
         /\ origImage' = r.img
         /\ raised' = r.raised
  /\ lastCall' = "_initVoxelBasedCalculation"
  /\ argCoords' = <<>>
  /\ callerCoords' = <<>>
  /\ UNCHANGED <<origMask, evalPoints, result>>

\* self._initCalculation()
CallInitCalculation ==
  /\ LET r == InitCalculationAggregate(self)
     IN  /\ self' = r.self
         /\ raised' = r.raised
         /\ evalPoints' = IF r.set THEN 1 ELSE evalPoints
  /\ lastCall' = "_initCalculation"
  /\ argCoords' = <<>>
  /\ callerCoords' = <<>>
  /\ UNCHANGED <<alias, origImage, origMask, result>>

\* self._initCalculation(voxelCoordinates)
CallInitCalculationLocal ==
  \E voxelCoordinates \in Batches :
    LET sh == ShiftForPadding(voxelCoordinates)
        r == InitCalculationLocal(self, sh.shifted)
    IN  /\ self' = r.self
        /\ raised' = r.raised
        /\ evalPoints' = IF r.set THEN Len(voxelCoordinates) ELSE evalPoints
        /\ argCoords' = voxelCoordinates
        /\ callerCoords' = sh.caller
        /\ lastCall' = "_initCalculationLocal"
        /\ UNCHANGED <<alias, origImage, origMask, result>>

Next ==
  \/ CallInitVoxelBasedCalculation
  \/ CallInitCalculation
  \/ CallInitCalculationLocal

Spec == Init /\ [][Next]_vars

----------------------------------------------------------------------------
(* The statistics on their own.  The getters read self.targetVoxelArray    *)
(* only.  SpecStat starts from every sample matrix an extraction of Spec   *)
(* can leave (computed with the operators above); SpecRow starts from the  *)
(* aggregate rows of up to MaxLen voxels.  Their steps are getter calls.   *)

\* intensities of the aggregate rows drawn for the statistics
StatIntensities == {0, 7, 9, 10}

StatRows == UNION {[1..n -> {F(v) : v \in StatIntensities}] : n \in 0..MaxLen}

\* the sample matrices the extractions on object o leave, each with its
\* number of evaluation points
ExtractionsOn(o) ==
  LET agg == InitCalculationAggregate(o)
  IN  (IF agg.set THEN {[M |-> agg.self.targetVoxelArray, n |-> 1]} ELSE {})
        \cup {[M |-> InitCalculationLocal(o, ShiftForPadding(vc).shifted)
                       .self.targetVoxelArray,
               n |-> Len(vc)] :
                vc \in {b \in BatchesUpTo(MaxRows) :
                          InitCalculationLocal(o, ShiftForPadding(b).shifted).set}}

\* the objects _initCalculation can be called on: the constructed object c
\* (for the input mask given) and, where its image is not padded yet, the
\* object after _initVoxelBasedCalculation
ObjectsOf(c, mask) ==
  LET v == InitVoxelBasedCalculation(c.self, c.alias, c.img, mask)
  IN  {c.self} \cup (IF c.self.imageArray.shape = Shape /\ v.raised = "none"
                     THEN {v.self} ELSE {})

\* the state after an extraction that left the sample matrix M for n points;
\* the getters read nothing else of the object, which is left blank
AfterExtraction(M, n) ==
  /\ self = [Blank(TRUE) EXCEPT !.targetVoxelArray = M]
  /\ alias = FALSE
  /\ origImage = Array(Shape, LAMBDA c: Zero)
  /\ origMask = Array(Shape, LAMBDA c: FALSE)
  /\ argCoords = <<>>
  /\ callerCoords = <<>>
  /\ evalPoints = n
  /\ lastCall = "_initCalculation"
  /\ raised = "none"
  /\ result = NoResult

InitStat ==
  \E img \in Volumes, mask \in Masks, maskedKernel \in BOOLEAN,
     voxelBased \in BOOLEAN :
    LET c == Construct(img, mask, maskedKernel, voxelBased)
    IN  /\ c.raised = "none"
        /\ \E o \in ObjectsOf(c, mask) :
             \E e \in ExtractionsOn(o) : AfterExtraction(e.M, e.n)

InitRow == \E row \in StatRows : AfterExtraction(Matrix(<<row>>, Len(row)), 1)

\* the call self.get<g>(): the object stays as it is
Get(g) ==
  /\ result' = Call(g, self.targetVoxelArray)
  /\ raised' = result'.raised
  /\ lastCall' = g
  /\ UNCHANGED <<self, alias, origImage, origMask, argCoords, callerCoords,
                 evalPoints>>

\* any getter
CallGetter == \E g \in Getters : Get(g)

NextStat == CallGetter

SpecStat == InitStat /\ [][NextStat]_vars

\* the getters called on the aggregate rows
RowGetters == {"MeanAbsoluteDeviation", "RobustMeanAbsoluteDeviation",
               "Skewness", "Kurtosis"}

CallRowGetter == \E g \in RowGetters : Get(g)

NextRow == CallRowGetter

SpecRow == InitRow /\ [][NextRow]_vars

----------------------------------------------------------------------------
(* Properties *)

\* the sample matrix of the current state
TVA == self.targetVoxelArray

IsGetterCall == lastCall \in Getters

\* number of valid entries of a row, and whether they are all one value
NValid(row) == Len(SelectValid(row))
AllEqual(row) == \A a, b \in 1..Len(row) :
                   (~IsNaN(row[a]) /\ ~IsNaN(row[b])) => row[a] = row[b]

\* x <= y for two returned numbers that are plain values (false with a nan)
ValLe(x, y) == x.f = "val" /\ y.f = "val" /\ RLe(x.a, y.a)

\* x > y for two returned numbers that are plain, defined values
ValGt(x, y) == /\ x.f = "val" /\ y.f = "val"
               /\ ~IsNaN(x.a) /\ ~IsNaN(y.a)
               /\ RLt(y.a, x.a)

\* how many valid entries of the row lie below its 10th and above its 90th
\* percentile, and how many lie in the closed band
NLess(row, p) == Cardinality({k \in 1..Len(row) : RLt(row[k], p)})
NGreater(row, p) == Cardinality({k \in 1..Len(row) : RLt(p, row[k])})
NBelow(row) == NLess(row, NanPercentile(row, 10))
NAbove(row) == NGreater(row, NanPercentile(row, 90))
NKept(row) == NValid(row) - NBelow(row) - NAbove(row)

\* C1 as stated: for every row whose closed [10th, 90th] percentile band
\* excludes at least one tail value and whose values are not all equal,
\* the robust mean absolute deviation is at most the mean absolute deviation
\* (read in the weakest way: it is never a number greater than it).
C1_RobustAtMostMad ==
  lastCall = "RobustMeanAbsoluteDeviation" =>
    \A i \in 1..TVA.nrows :
      (NBelow(TVA.data[i]) + NAbove(TVA.data[i]) >= 1 /\ ~AllEqual(TVA.data[i]))
        => ~ValGt(result.v[i], getIntensityMeanAbsoluteDeviation(TVA).v[i])

\* C1 amended: for every row whose band excludes as many entries below the
\* 10th percentile as above the 90th, at least one on each side, and keeps
\* at least one entry, the robust mean absolute deviation is at most the mean
\* absolute deviation.
C1_RobustAtMostMadBalanced ==
  lastCall = "RobustMeanAbsoluteDeviation" =>
    \A i \in 1..TVA.nrows :
      (/\ NBelow(TVA.data[i]) >= 1
       /\ NBelow(TVA.data[i]) = NAbove(TVA.data[i])
       /\ NKept(TVA.data[i]) >= 1)
        => ValLe(result.v[i], getIntensityMeanAbsoluteDeviation(TVA).v[i])

\* a row trimmed on both sides whose robust deviation is positive and
\* strictly below the mean absolute deviation
C1_Witness ==
  /\ lastCall = "RobustMeanAbsoluteDeviation"
  /\ TVA.nrows = 1
  /\ NBelow(TVA.data[1]) >= 1
  /\ NBelow(TVA.data[1]) = NAbove(TVA.data[1])
  /\ NKept(TVA.data[1]) >= 2
  /\ RLt(Zero, result.v[1].a)
  /\ RLt(result.v[1].a, getIntensityMeanAbsoluteDeviation(TVA).v[1].a)

\* the index pairs (evaluation point, kernel offset, axis) of the last
\* local call that fall outside the padded volume
OutsidePadded ==
  {<<j, k, d>> \in (1..Len(argCoords)) \X (1..Len(self.kernelOffsets)) \X (1..3) :
     LET i == argCoords[j][d] + KernelRadius + self.kernelOffsets[k][d]
     IN  i < 0 \/ i >= self.imageArray.shape[d]}

\* C2: a local _initCalculation whose coordinates, shifted by kernelRadius
\* and moved by some kernel offset, leave the padded volume (negative
\* indices included) ends with an exception.
C2_OutOfRangeRaises ==
  (lastCall = "_initCalculationLocal" /\ self.hasKernel /\ OutsidePadded # {})
    => raised # "none"

\* a row without a valid entry (a row of width 0 included)
HasEmptyRow(M) == \E i \in 1..M.nrows : NValid(M.data[i]) = 0

\* C3: on a sample matrix with a row of zero valid entries, Mean, Median,
\* Minimum and Maximum return (a sentinel for that row) and do not raise.
C3_EmptyRowNoRaise ==
  (lastCall \in {"Mean", "Median", "Minimum", "Maximum"} /\ HasEmptyRow(TVA))
    => /\ result.raised = "none"
       /\ \A i \in 1..TVA.nrows :
            NValid(TVA.data[i]) = 0 => result.v[i] = Val(NaN)

NoValidAnywhere(M) == \A i \in 1..M.nrows : NValid(M.data[i]) = 0

\* C4: on a sample matrix without any valid entry (no elements, or only
\* invalid ones) RootMeanSquare returns exactly 0.
C4_RmsZeroWhenEmpty ==
  (lastCall = "RootMeanSquare" /\ NoValidAnywhere(TVA))
    => /\ result.raised = "none"
       /\ \A i \in 1..Len(result.v) : result.v[i] = Val(Zero)

\* a row whose valid entries are one value repeated more than once
Flat(row) == NValid(row) > 1 /\ AllEqual(row)

\* C5: for every row holding one distinct valid value repeated n > 1 times
\* (invalid entries possibly in between), Skewness and Kurtosis return
\* exactly 0 for that row.
C5_FlatRowZero ==
  lastCall \in {"Skewness", "Kurtosis"} =>
    \A i \in 1..TVA.nrows : Flat(TVA.data[i]) => result.v[i] = Val(Zero)

\* what a call gave for row i (a bare scalar counts for every row)
RowResult(res, i) == IF res.scalar THEN res.v[1] ELSE res.v[i]

SameAt(res1, res2, i) ==
  /\ res1.raised = res2.raised
  /\ res1.scalar = res2.scalar
  /\ res1.raised = "none" => RowResult(res1, i) = RowResult(res2, i)

\* rows put in place of another row of the batch: fully invalid, all zero,
\* and every row of the matrix itself
Replacements(M) ==
  {[k \in 1..M.ncols |-> NaN], [k \in 1..M.ncols |-> Zero]}
    \cup {M.data[j] : j \in 1..M.nrows}

\* C6: the value a getter returns for row i depends on row i only: the
\* matrix with another row replaced (by a fully invalid row, among others)
\* gives the same value for row i, for every getter.
C6_RowIndependence ==
  IsGetterCall =>
    \A i \in 1..TVA.nrows : \A j \in (1..TVA.nrows) \ {i} :
      \A r \in Replacements(TVA) :
        SameAt(result, Call(lastCall, [TVA EXCEPT !.data[j] = r]), i)

\* RootMeanSquare on a batch of two rows, one fully invalid, the other with
\* a non-zero result
C6_Witness ==
  /\ lastCall = "RootMeanSquare"
  /\ TVA.nrows = 2
  /\ \E i, j \in 1..2 :
       /\ NValid(TVA.data[j]) = 0
       /\ NValid(TVA.data[i]) > 0
       /\ ~result.scalar
       /\ result.v[i] # Val(Zero)
       /\ result.v[i] # Val(NaN)

\* C7: what a getter returns is a vector with one entry per evaluation
\* point, never a bare scalar or a vector of another length.
C7_ResultLength ==
  (IsGetterCall /\ result.raised = "none")
    => (~result.scalar /\ Len(result.v) = evalPoints)

\* C8: no call changes the arrays the caller supplied: the intensity
\* volume, the mask, and the voxelCoordinates passed to _initCalculation.
C8_InputsNotMutated ==
  [][/\ origImage' = origImage
     /\ origMask' = origMask
     /\ callerCoords' = argCoords']_vars

\* a local extraction succeeded on a padded image in which a voxel outside
\* the mask was set to nan
C8_Witness ==
  /\ lastCall = "_initCalculationLocal"
  /\ raised = "none"
  /\ argCoords # <<>>
  /\ self.imageArray.shape # origImage.shape
  /\ \E c \in Coords(Shape) :
       /\ ~origMask.data[c]
       /\ self.imageArray.data[<<c[1] + KernelRadius, c[2] + KernelRadius,
                                 c[3] + KernelRadius>>] = NaN
       /\ origImage.data[c] # NaN

\* C9: each row of coefficients['p_i'] sums to 1, or, when its total count
\* is 0, holds zeros only; no entry is undefined.
C9_OccupancyNormalised ==
  \A j \in 1..Len(self.p_i) :
    /\ \A g \in 1..Len(self.p_i[j]) : IsFinite(self.p_i[j][g])
    /\ \/ RSum(self.p_i[j]) = One
       \/ \A g \in 1..Len(self.p_i[j]) : self.p_i[j][g] = Zero

\* a local extraction left a row of zeros over at least one gray level
C9_Witness ==
  /\ lastCall = "_initCalculationLocal"
  /\ raised = "none"
  /\ \E j \in 1..Len(self.p_i) :
       /\ Len(self.p_i[j]) >= 1
       /\ \A g \in 1..Len(self.p_i[j]) : self.p_i[j][g] = Zero

\* the mask array the object works with: the input mask, or every voxel
\* when the kernel is not masked
WorkingMask(c) == IF self.maskedKernel THEN origMask.data[c] ELSE TRUE

\* the intensity the original volume offers at coordinate c
Offered(c) ==
  IF c \in Coords(Shape) /\ WorkingMask(c) THEN origImage.data[c] ELSE NaN

\* C10: after a local extraction, for every evaluation coordinate v inside
\* the volume (row j) and every kernel offset o (column k),
\* targetVoxelArray[j][k] is the original intensity at v+o where v+o is in
\* the volume and in the mask, and invalid otherwise; the row has one
\* column per offset, the zero offset being one of them, once.
C10_GatherMatchesVolume ==
  (lastCall = "_initCalculationLocal" /\ raised = "none") =>
    /\ TVA.nrows = Len(argCoords)
    /\ TVA.ncols = Len(self.kernelOffsets)
    /\ Cardinality({k \in 1..Len(self.kernelOffsets) :
                      self.kernelOffsets[k] = <<0, 0, 0>>}) = 1
    /\ \A j \in 1..Len(argCoords) :
         argCoords[j] \in Coords(Shape) =>
           /\ Len(TVA.data[j]) = Len(self.kernelOffsets)
           /\ \A k \in 1..Len(self.kernelOffsets) :
                TVA.data[j][k] =
                  Offered(<<argCoords[j][1] + self.kernelOffsets[k][1],
                            argCoords[j][2] + self.kernelOffsets[k][2],
                            argCoords[j][3] + self.kernelOffsets[k][3]>>)

\* a local extraction at a coordinate of the volume gave a row of three
\* columns holding both an intensity and an invalid entry
C10_Witness ==
  /\ lastCall = "_initCalculationLocal"
  /\ raised = "none"
  /\ \E j \in 1..Len(argCoords) :
       /\ argCoords[j] \in Coords(Shape)
       /\ Len(TVA.data[j]) = 3
       /\ NValid(TVA.data[j]) \in 1..2

====
